---------------------------- MODULE Spec2Model ----------------------------
(***************************************************************************)
(* Seryvo live dispatch core: the booking status handlers                  *)
(* (backend/app/api/bookings.py, backend/app/api/drivers.py) over the      *)
(* relational store, and the WebSocket connection manager and its          *)
(* notify helpers (backend/app/api/websocket.py).                          *)
(*                                                                         *)
(* A REST handler is a coroutine: it SELECTs a row into a session-local    *)
(* object, validates and assigns in memory without suspending, and then    *)
(* awaits db.commit(), which writes the columns it changed by primary key. *)
(* Other requests run between the SELECT and the commit.                   *)
(***************************************************************************)
EXTENDS Integers, Sequences, FiniteSets, TLC

(* ------------------------------ bounds --------------------------------- *)
\* validated requests (those that reach db.commit) in one behaviour
MaxOps == 2
\* WebSocket connections opened in one behaviour
MaxConns == 3
\* bookings created by create_booking in one behaviour
MaxBookings == 1
\* WebSocket connections opened while a booking is dispatched
MaxOnline == 2

(* --------------------------- fixed universe ---------------------------- *)
Null == "null"

Users == {"c1", "d1", "d2", "a1", "s1"}

\* User.roles as stored (UserRole rows), in the order the login token lists them
\* (auth.py:158)
UserRoles(u) ==
    CASE u = "c1" -> <<"client">>
      [] u = "d1" -> <<"driver">>
      [] u = "d2" -> <<"driver">>
      [] u = "a1" -> <<"admin">>
      [] u = "s1" -> <<"support">>

\* user_roles = [ur.role.name for ur in current_user.roles]
RolesOf(u) == {UserRoles(u)[i] : i \in DOMAIN UserRoles(u)}

\* the two concurrent request coroutines that are modelled
Slots == {1, 2}

\* BookingStatus, enums.py
BookingStatus ==
    {"draft", "requested", "driver_assigned", "driver_en_route_pickup",
     "driver_arrived", "in_progress", "completed", "canceled_by_client",
     "canceled_by_driver", "canceled_by_system", "no_show_client",
     "no_show_driver", "disputed", "refunded"}

\* values a caller may put in BookingUpdate.status (an optional free string)
StatusInputs ==
    {"requested", "driver_assigned", "driver_en_route_pickup", "driver_arrived",
     "in_progress", "completed", "cancelled", Null}

\* values a caller may put in DriverStatusUpdate.availability_status
AvailabilityInputs == {"available", "offline"}

VARIABLES
    bookings,               \* bookings table: Seq of rows, index = id
    events,                 \* booking_events table, in insertion order
    profiles,               \* driver_profiles table: user -> row or Null
    req,                    \* per request coroutine: its position and session objects
    clock,                  \* utcnow(): 1 + the number of validated requests so far
    resp,                   \* the status of the HTTP response most recently returned
    accepted,               \* history: (booking, caller) of each accept call that returned success
    notified,               \* history: notify_* helper calls made by REST handlers
    active_connections,     \* ConnectionManager.active_connections
    user_metadata,          \* ConnectionManager.user_metadata
    channel_subscriptions,  \* ConnectionManager.channel_subscriptions
    room_subscriptions,     \* ConnectionManager.room_subscriptions
    conn,                   \* per WebSocket: its endpoint coroutine's position and identity
    fo,                     \* the notify helper that is running, suspended in a send_json
    sent,                   \* history: the send_to_user call that returned last
    offered                 \* history: send_to_user calls made by notify_new_booking_offer

storeVars == <<bookings, events, profiles>>
restVars == <<req, clock, resp, accepted, notified>>
registryVars == <<active_connections, user_metadata, channel_subscriptions,
                  room_subscriptions>>
wsVars == <<conn, fo, sent, offered>>
vars == <<bookings, events, profiles, req, clock, resp, accepted, notified,
          active_connections, user_metadata, channel_subscriptions,
          room_subscriptions, conn, fo, sent, offered>>

(* ------------------------------ the store ------------------------------ *)
\* Booking(...) as create_booking builds it (bookings.py:315-335)
NewBooking(client_id) ==
    [client_id |-> client_id, driver_id |-> Null, status |-> "requested",
     started_at |-> 0, completed_at |-> 0, cancelled_at |-> 0]

NoRow ==
    [client_id |-> Null, driver_id |-> Null, status |-> Null,
     started_at |-> 0, completed_at |-> 0, cancelled_at |-> 0]

\* DriverProfile rows; NoProfile stands for "no row for this user"
Profile(status, availability_status) ==
    [status |-> status, availability_status |-> availability_status]

NoProfile == Profile(Null, Null)

BookingColumns ==
    {"client_id", "driver_id", "status", "started_at", "completed_at", "cancelled_at"}

\* the UPDATE the unit of work emits at flush: only the attributes whose value
\* differs from the loaded one are written, WHERE id = :id
Flush(row, loaded, obj) ==
    [col \in BookingColumns |-> IF obj[col] # loaded[col] THEN obj[col] ELSE row[col]]

\* BookingEvent(booking_id, actor_id, event_type, event_metadata)
Event(booking_id, actor_id, event_type, previous_status) ==
    [booking_id |-> booking_id, actor_id |-> actor_id, event_type |-> event_type,
     previous_status |-> previous_status]

NoEvent == Event(0, Null, <<>>, Null)

IdleReq ==
    [pc |-> "idle", kind |-> Null, user |-> Null, booking_id |-> 0,
     new_status |-> Null, loaded |-> NoRow, obj |-> NoRow, event |-> NoEvent,
     avail |-> Null, rows |-> <<>>]

IsAdmin(u) == RolesOf(u) \cap {"admin", "support"} # {}
IsDriver(u) == "driver" \in RolesOf(u)

Reject(code, detail) == [code |-> code, detail |-> detail, obj |-> NoRow]
Proceed(obj) == [code |-> "ok", detail |-> Null, obj |-> obj]

(* ------------------- update_booking_status (bookings.py) --------------- *)
\* a plausible slip: the accept branch assigns the caller without looking at
\* the row's current status and driver
AcceptCheckUnguarded(booking, user_id, new_status) ==
    IF ~IsDriver(user_id) /\ ~IsAdmin(user_id) THEN Reject("forbidden", "only_drivers")
    ELSE Proceed([booking EXCEPT !.driver_id = user_id, !.status = new_status])

\* bookings.py:694-713 (with the status assignment of line 759): a driver
\* accepting an offer
AcceptCheck(booking, user_id, new_status) ==
    IF ~IsDriver(user_id) /\ ~IsAdmin(user_id) THEN Reject("forbidden", "only_drivers")
    ELSE IF booking.status # "requested" THEN Reject("bad_request", "not_requested")
    ELSE IF booking.driver_id # Null THEN Reject("bad_request", "already_assigned")
    ELSE Proceed([booking EXCEPT !.driver_id = user_id, !.status = new_status])

\* a plausible slip: the progression table lets the driver skip en route
ValidTransitionsSkipping ==
    [s \in {"driver_assigned", "driver_en_route_pickup", "driver_arrived", "in_progress"} |->
        CASE s = "driver_assigned" -> {"driver_en_route_pickup", "driver_arrived"}
          [] s = "driver_en_route_pickup" -> {"driver_arrived"}
          [] s = "driver_arrived" -> {"in_progress"}
          [] s = "in_progress" -> {"completed"}]

\* valid_transitions, bookings.py:724-729
ValidTransitions ==
    [s \in {"driver_assigned", "driver_en_route_pickup", "driver_arrived", "in_progress"} |->
        CASE s = "driver_assigned" -> {"driver_en_route_pickup"}
          [] s = "driver_en_route_pickup" -> {"driver_arrived"}
          [] s = "driver_arrived" -> {"in_progress"}
          [] s = "in_progress" -> {"completed"}]

\* bookings.py:715-747 (with the status assignment of line 759): trip progress
ProgressCheck(booking, user_id, new_status, now) ==
    IF booking.driver_id # user_id /\ ~IsAdmin(user_id)
    THEN Reject("forbidden", "only_assigned_driver")
    ELSE IF booking.status \notin DOMAIN ValidTransitions
    THEN Reject("bad_request", "cannot_transition_from")
    ELSE IF new_status \notin ValidTransitions[booking.status]
    THEN Reject("bad_request", "invalid_transition")
    ELSE IF new_status = "in_progress"
    THEN Proceed([booking EXCEPT !.started_at = now, !.status = new_status])
    ELSE IF new_status = "completed"
    THEN Proceed([booking EXCEPT !.completed_at = now, !.status = new_status])
    ELSE Proceed([booking EXCEPT !.status = new_status])

\* bookings.py:691-753: the permission and transition checks and the in-memory
\* assignments, on the row the handler has just selected
UbsCheck(booking, user_id, new_status, now) ==
    IF new_status = "driver_assigned"
    THEN AcceptCheck(booking, user_id, new_status)
    ELSE IF new_status \in {"driver_en_route_pickup", "driver_arrived",
                            "in_progress", "completed"}
    THEN ProgressCheck(booking, user_id, new_status, now)
    ELSE Reject("bad_request", "invalid_status")

\* what the caller sees of a response: the HTTPException's status code (403
\* "forbidden", 400 "bad_request", 404 "not_found") and its detail message, named
\* here after the raise that produced it, or the success response
ErrorResponse(out) == [code |-> out.code, detail |-> out.detail]

OkResponse == [code |-> "ok", detail |-> Null]

NoResponse == [code |-> Null, detail |-> Null]

\* request coroutines are anonymous: a new request runs in the first free one
FreeSlot(s) == req[s].pc = "idle" /\ \A t \in Slots : t < s => req[t].pc # "idle"

\* a handler from its SELECT to the point where it awaits db.commit(): it either
\* raises (the response is the error, the session is discarded) or holds the
\* modified object and the event to insert
Handle(s, kind, user, booking_id, new_status, loaded, out, event, avail) ==
    /\ FreeSlot(s)
    /\ IF out.code = "ok"
       THEN /\ clock <= MaxOps
            /\ clock' = clock + 1
            /\ req' = [req EXCEPT ![s] =
                   [pc |-> "commit", kind |-> kind, user |-> user,
                    booking_id |-> booking_id, new_status |-> new_status,
                    loaded |-> loaded, obj |-> out.obj, event |-> event,
                    avail |-> avail, rows |-> <<>>]]
            /\ resp' = resp
       ELSE /\ resp' = ErrorResponse(out)
            /\ UNCHANGED <<req, clock>>
    /\ UNCHANGED <<storeVars, accepted, notified, registryVars, wsVars>>

\* ids a caller names: those of the bookings it was shown
BookingIdInputs == DOMAIN bookings

\* bookings.py:671-768
UpdateBookingStatus(s, user_id, booking_id, new_status) ==
    IF booking_id \notin DOMAIN bookings
    THEN Handle(s, "update_booking_status", user_id, booking_id, new_status, NoRow,
                Reject("not_found", "status_booking_not_found"), NoEvent, Null)
    ELSE LET booking == bookings[booking_id]
             out == UbsCheck(booking, user_id, new_status, clock + 1)
         IN  Handle(s, "update_booking_status", user_id, booking_id, new_status,
                    booking, out,
                    \* event_metadata is built after booking.status was assigned
                    Event(booking_id, user_id, <<"booking", new_status>>, out.obj.status),
                    Null)

(* ----------------------- cancel_booking (bookings.py) ------------------ *)
\* bookings.py:831-847
CancelCheck(booking, user_id, now) ==
    IF ~IsAdmin(user_id) /\ booking.client_id # user_id /\ booking.driver_id # user_id
    THEN Reject("forbidden", "not_authorized")
    ELSE IF booking.status \in {"completed", "cancelled"}
    THEN Reject("bad_request", "already_completed_or_cancelled")
    ELSE Proceed([booking EXCEPT !.status = "cancelled", !.cancelled_at = now])

\* bookings.py:817-857
CancelBooking(s, user_id, booking_id) ==
    IF booking_id \notin DOMAIN bookings
    THEN Handle(s, "cancel_booking", user_id, booking_id, Null, NoRow,
                Reject("not_found", "cancel_booking_not_found"), NoEvent, Null)
    ELSE LET booking == bookings[booking_id]
         IN  Handle(s, "cancel_booking", user_id, booking_id, Null, booking,
                    CancelCheck(booking, user_id, clock + 1),
                    Event(booking_id, user_id, <<"booking", "cancelled">>, Null), Null)

(* ------------------------ driver job handlers (drivers.py) ------------- *)
\* require_driver = require_roles(["admin", "driver"]), dependencies.py:76-102
RequireDriver(u) == RolesOf(u) \cap {"admin", "driver"} # {}

\* drivers.py:404-442
AcceptJobCheck(profile, booking_id, user_id) ==
    IF ~RequireDriver(user_id) THEN Reject("forbidden", "insufficient_permissions")
    ELSE IF profile = NoProfile \/ profile.status # "approved"
    THEN Reject("forbidden", "driver_not_approved")
    ELSE IF booking_id \notin DOMAIN bookings
    THEN Reject("not_found", "job_not_found")
    ELSE IF bookings[booking_id].driver_id # Null
    THEN Reject("bad_request", "job_already_assigned")
    ELSE IF bookings[booking_id].status \notin {"pending", "searching"}
    THEN Reject("bad_request", "not_available_for_acceptance")
    ELSE Proceed([bookings[booking_id] EXCEPT !.driver_id = user_id, !.status = "accepted"])

\* drivers.py:402-455
AcceptJob(s, user_id, booking_id) ==
    Handle(s, "accept_job", user_id, booking_id, Null,
           IF booking_id \in DOMAIN bookings THEN bookings[booking_id] ELSE NoRow,
           AcceptJobCheck(profiles[user_id], booking_id, user_id),
           Event(booking_id, user_id, <<"booking", "accepted">>, Null), "busy")

\* the SELECT ... WHERE id = :booking_id AND driver_id = :user_id of
\* arrive_at_pickup, start_trip and complete_trip, then their status check
DriverStepCheck(user_id, booking_id, required, obj) ==
    IF ~RequireDriver(user_id) THEN Reject("forbidden", "insufficient_permissions")
    ELSE IF booking_id \notin DOMAIN bookings \/ bookings[booking_id].driver_id # user_id
    THEN Reject("not_found", "driver_booking_not_found")
    ELSE IF bookings[booking_id].status # required
    THEN Reject("bad_request", "invalid_booking_status")
    ELSE Proceed(obj)

LoadedRow(booking_id) ==
    IF booking_id \in DOMAIN bookings THEN bookings[booking_id] ELSE NoRow

\* drivers.py:529-561
ArriveAtPickup(s, user_id, booking_id) ==
    Handle(s, "arrive_at_pickup", user_id, booking_id, Null, LoadedRow(booking_id),
           DriverStepCheck(user_id, booking_id, "accepted",
                           [LoadedRow(booking_id) EXCEPT !.status = "arrived"]),
           Event(booking_id, user_id, <<"driver", "arrived">>, Null), Null)

\* drivers.py:588-621
StartTrip(s, user_id, booking_id) ==
    Handle(s, "start_trip", user_id, booking_id, Null, LoadedRow(booking_id),
           DriverStepCheck(user_id, booking_id, "arrived",
                           [LoadedRow(booking_id) EXCEPT !.status = "in_progress",
                                                         !.started_at = clock + 1]),
           Event(booking_id, user_id, <<"trip", "started">>, Null), Null)

\* drivers.py:636-755; the driver profile is selected right before the commit
CompleteTrip(s, user_id, booking_id) ==
    Handle(s, "complete_trip", user_id, booking_id, Null, LoadedRow(booking_id),
           DriverStepCheck(user_id, booking_id, "in_progress",
                           [LoadedRow(booking_id) EXCEPT !.status = "completed",
                                                         !.completed_at = clock + 1]),
           Event(booking_id, user_id, <<"trip", "completed">>, Null), "available")

(* ------------------------------ db.commit ------------------------------ *)
\* the profile write a handler flushes with its booking: accept_job sets busy on
\* the profile it loaded (drivers.py:445), complete_trip sets available on the
\* profile if one exists (drivers.py:736-741)
ProfileFlush(r) ==
    IF r.avail # Null /\ profiles[r.user] # NoProfile
    THEN [profiles EXCEPT ![r.user].availability_status = r.avail]
    ELSE profiles

\* await db.commit(): the UPDATE of the changed columns and the INSERT of the
\* event, in one transaction (bookings.py:770, 859; drivers.py:455, 561, 621, 757)
DbCommit(s) ==
    /\ req[s].pc = "commit"
    /\ LET r == req[s]
       IN  /\ bookings' = [bookings EXCEPT ![r.booking_id] = Flush(@, r.loaded, r.obj)]
           /\ events' = Append(events, r.event)
           /\ profiles' = ProfileFlush(r)
    /\ req' = [req EXCEPT ![s].pc = "respond"]
    /\ UNCHANGED <<clock, resp, accepted, notified, registryVars, wsVars>>

\* the notify_* call a handler makes after its commit, as (helper, message type,
\* client_id, driver_id): update_booking_status refreshes the row first
\* (bookings.py:771-802), cancel_booking uses its session object
\* (bookings.py:862-874), accept_job passes the caller (drivers.py:495-498);
\* the other driver handlers send no WebSocket message
Notification(r) ==
    LET row == bookings[r.booking_id]
    IN  CASE r.kind = "update_booking_status" /\ r.new_status = "driver_arrived" ->
               {[booking_id |-> r.booking_id, type |-> "driver_arrived",
                 client_id |-> row.client_id, driver_id |-> row.driver_id,
                 status |-> Null, previous_status |-> Null]}
          [] r.kind = "update_booking_status" /\ r.new_status # "driver_arrived" ->
               {[booking_id |-> r.booking_id, type |-> "booking_status_changed",
                 client_id |-> row.client_id, driver_id |-> row.driver_id,
                 status |-> r.new_status, previous_status |-> r.loaded.status]}
          [] r.kind = "cancel_booking" ->
               {[booking_id |-> r.booking_id, type |-> "booking_cancelled",
                 client_id |-> r.obj.client_id, driver_id |-> r.obj.driver_id,
                 status |-> Null, previous_status |-> Null]}
          [] r.kind = "accept_job" ->
               {[booking_id |-> r.booking_id, type |-> "driver_assigned",
                 client_id |-> r.obj.client_id, driver_id |-> r.user,
                 status |-> Null, previous_status |-> Null]}
          [] OTHER -> {}

(* ------------------ ConnectionManager (websocket.py) ------------------- *)
\* ChannelType, websocket.py:30-36
ChannelType == {"booking", "driver_location", "chat", "notification", "admin"}

Conns == 1..MaxConns

\* a Python dict: a function whose domain is the set of keys present
EmptyDict == [k \in {} |-> 0]

Put(dict, key, value) ==
    [k \in DOMAIN dict \cup {key} |-> IF k = key THEN value ELSE dict[k]]


\* a del that leaves the key in place
Keep(dict, key) == dict

Del(dict, key) == [k \in DOMAIN dict \ {key} |-> dict[k]]


\* a removal that empties the list
RemoveEvery(list, x) == <<>>

\* list.remove(x): drops the first occurrence
RECURSIVE Remove(_, _)
Remove(list, x) ==
    IF list = <<>> THEN <<>>
    ELSE IF Head(list) = x THEN Tail(list)
    ELSE <<Head(list)>> \o Remove(Tail(list), x)

Range(list) == {list[i] : i \in DOMAIN list}

\* the orders in which a SELECT without ORDER BY may return a set of rows, or
\* the iteration of a Python set may visit its elements
Orderings(S) == {rows \in [1..Cardinality(S) -> S] : Range(rows) = S}

\* status.WS_1008_POLICY_VIOLATION, the close code of a refused handshake
\* (websocket.py:371, 376)
WS_1008_POLICY_VIOLATION == 1008

\* a WebSocket: the position of its endpoint coroutine (pc), the identity the
\* endpoint took from the token, whether the transport still carries frames
\* (open), the close code the server sent (code, 0 for none) and the type of the
\* last message the endpoint sent on it alone (got); lock says that the
\* coroutine is inside an "async with self._lock" block of the manager and todo
\* lists the manager calls it has yet to make before its next network await
\* (both only where the handlers are followed statement by statement)
NoConn ==
    [pc |-> "new", user |-> Null, role |-> Null, open |-> TRUE, code |-> 0,
     got |-> Null, lock |-> FALSE, todo |-> <<>>]

\* the endpoint coroutine has returned
ClosedConn ==
    [pc |-> "closed", user |-> Null, role |-> Null, open |-> FALSE, code |-> 0,
     got |-> Null, lock |-> FALSE, todo |-> <<>>]

\* the endpoint coroutine in its receive loop
LoopConn(user_id, role) ==
    [pc |-> "loop", user |-> user_id, role |-> role, open |-> TRUE, code |-> 0,
     got |-> "connect", lock |-> FALSE, todo |-> <<>>]

\* the token query parameters in circulation: one per user as login builds it
\* (auth.py:158), one that does not decode or carries no sub, and the absent
\* one (token = None)
Token(u) == [given |-> TRUE, sub |-> u, roles |-> UserRoles(u)]

BadToken == [given |-> TRUE, sub |-> Null, roles |-> <<>>]

NoToken == [given |-> FALSE, sub |-> Null, roles |-> <<>>]

Tokens(users) == {Token(u) : u \in users} \cup {BadToken, NoToken}


\* a token built at a login at which the user's roles were listed as roles
\* (auth.py:200-211): the list is the result of a query without an order, and
\* admin_update_user_role (admin.py:1589) changes a user's roles while the
\* tokens issued before stay valid
TokenAs(u, roles) == [given |-> TRUE, sub |-> u, roles |-> roles]

\* the tokens of today's roles, and those d1 and a1 got when they were clients
RoleTokens ==
    {Token(u) : u \in {"d1", "a1", "s1"}}
    \cup {TokenAs("d1", <<"client">>), TokenAs("a1", <<"client">>)}

NoUser == [user_id |-> Null, role |-> Null]

\* a decoder that registers an undecodable token as a guest
get_token_guest(token) ==
    [user_id |-> IF token.sub = Null THEN "guest" ELSE token.sub,
     role |-> IF Len(token.roles) > 0 THEN token.roles[1] ELSE "client"]

\* websocket.py:309-332
get_token_user(token) ==
    IF token.sub = Null THEN NoUser
    ELSE [user_id |-> token.sub,
          role |-> IF Len(token.roles) > 0 THEN token.roles[1] ELSE "client"]

\* a notify helper between two of its awaits: the send_to_user calls it makes
\* (calls), the one it is in (k), how far that call's iterator is in the list
\* (idx), whether the list it iterates was dropped from the registry (stale),
\* the room it broadcasts to once its calls are made (room); snap, att, failed
\* and mut describe the current call for the record kept in sent; env is every
\* send of the helper's envelope so far and dirty whether active_connections
\* changed since the helper started
IdleFanout ==
    [pc |-> "idle", kind |-> Null, booking_id |-> 0, calls |-> <<>>, k |-> 0,
     idx |-> 0, stale |-> FALSE, snap |-> <<>>, att |-> <<>>, mut |-> FALSE,
     room |-> Null, failed |-> {}, env |-> <<>>, dirty |-> FALSE]

NoCall == [user |-> Null, snap |-> <<>>, att |-> <<>>, mut |-> FALSE, failed |-> {}]

\* what a change of active_connections means to the helper that is suspended:
\* its current call saw a mutation, and if the entry of the user it iterates
\* was deleted (after the list was emptied) its iterator is over an empty list
Mutated(f, deleted) ==
    IF f.pc # "run" THEN f
    ELSE [f EXCEPT !.mut = TRUE, !.dirty = TRUE,
                   !.stale = @ \/ (deleted # Null /\ f.calls[f.k] = deleted)]

\* ConnectionManager.__init__, websocket.py:96-113
InitRegistry ==
    /\ active_connections = EmptyDict
    /\ user_metadata = EmptyDict
    /\ channel_subscriptions = [ch \in ChannelType |-> {}]
    /\ room_subscriptions = EmptyDict
    /\ conn = [c \in Conns |-> NoConn]
    /\ fo = IdleFanout
    /\ sent = NoCall
    /\ offered = <<>>

\* sockets are anonymous: a new one is the first unused
FreshConn(c) == conn[c].pc = "new" /\ \A d \in Conns : d < c => conn[d].pc # "new"

\* the body of connect's "async with self._lock" block (websocket.py:124-134)
RegisterSocket(c, user_id, user_role) ==
    /\ active_connections' =
          IF user_id \notin DOMAIN active_connections
          THEN Put(active_connections, user_id, <<c>>)
          ELSE [active_connections EXCEPT ![user_id] = Append(@, c)]
    /\ user_metadata' =
          IF user_id \notin DOMAIN active_connections
          THEN Put(user_metadata, user_id,
                   [role |-> user_role, connection_count |-> 1])
          ELSE [user_metadata EXCEPT ![user_id].connection_count = @ + 1]
    /\ fo' = Mutated(fo, Null)

\* websocket_endpoint up to the ack of manager.connect (websocket.py:369-383,
\* 115-146): a bad token closes the socket; otherwise the socket is accepted and
\* registered, and the coroutine suspends sending the ack
Connect(c, token) ==
    /\ FreshConn(c)
    /\ LET user_info == get_token_user(token)
           user_id == user_info.user_id
       IN  IF ~token.given \/ user_info = NoUser
           THEN /\ conn' = [conn EXCEPT ![c] =
                               [ClosedConn EXCEPT !.code = WS_1008_POLICY_VIOLATION]]
                /\ UNCHANGED <<active_connections, user_metadata, fo>>
           ELSE /\ RegisterSocket(c, user_id, user_info.role)
                /\ conn' = [conn EXCEPT ![c] =
                               [LoopConn(user_id, user_info.role) EXCEPT !.pc = "ack"]]
    /\ UNCHANGED <<storeVars, restVars, channel_subscriptions, room_subscriptions,
                   sent, offered>>

\* ConnectionManager.subscribe_channel, websocket.py:173-177
subscribe_channel(subs, user_id, channel) ==
    [subs EXCEPT ![channel] = @ \cup {user_id}]

\* ConnectionManager.unsubscribe_channel, websocket.py:179-183
unsubscribe_channel(subs, user_id, channel) ==
    [subs EXCEPT ![channel] = @ \ {user_id}]

\* ConnectionManager.join_room, websocket.py:185-191
join_room(rooms, user_id, room_id) ==
    IF room_id \notin DOMAIN rooms THEN Put(rooms, room_id, {user_id})
    ELSE [rooms EXCEPT ![room_id] = @ \cup {user_id}]

\* ConnectionManager.leave_room, websocket.py:193-199
leave_room(rooms, user_id, room_id) ==
    IF room_id \notin DOMAIN rooms THEN rooms
    ELSE IF rooms[room_id] \ {user_id} = {} THEN Del(rooms, room_id)
    ELSE [rooms EXCEPT ![room_id] = @ \ {user_id}]


\* an endpoint that subscribes to the notification channel only
AutoNotificationOnly(role) == {"notification"}

\* the channels the endpoint subscribes a new connection's user to
\* (websocket.py:385-392)
AutoChannels(role) ==
    {"notification"} \cup (IF role = "driver" THEN {"driver_location"}
                           ELSE IF role = "admin" THEN {"admin"} ELSE {})

\* websocket_endpoint after the ack, up to its first receive_json
AutoSubscribe(c) ==
    /\ conn[c].pc = "ack"
    /\ channel_subscriptions' =
          [ch \in ChannelType |->
              IF ch \in AutoChannels(conn[c].role)
              THEN channel_subscriptions[ch] \cup {conn[c].user}
              ELSE channel_subscriptions[ch]]
    /\ conn' = [conn EXCEPT ![c].pc = "loop"]
    /\ UNCHANGED <<storeVars, restVars, active_connections, user_metadata,
                   room_subscriptions, fo, sent, offered>>

\* the channel names and room ids clients put in subscribe and unsubscribe
\* messages; "bogus" is no ChannelType, Null is a payload without room_id
ChannelInputs == {"booking", "bogus"}

RoomInputs == {"booking:1", Null}

\* a subscribe message received in the loop (websocket.py:416-421)
Subscribe(c, channel, room_id) ==
    /\ conn[c].pc = "loop"
    /\ channel_subscriptions' =
          IF channel \in ChannelType
          THEN subscribe_channel(channel_subscriptions, conn[c].user, channel)
          ELSE channel_subscriptions
    /\ room_subscriptions' =
          IF room_id # Null THEN join_room(room_subscriptions, conn[c].user, room_id)
          ELSE room_subscriptions
    /\ UNCHANGED <<storeVars, restVars, active_connections, user_metadata, wsVars>>

\* an unsubscribe message received in the loop (websocket.py:423-428)
Unsubscribe(c, channel, room_id) ==
    /\ conn[c].pc = "loop"
    /\ channel_subscriptions' =
          IF channel \in ChannelType
          THEN unsubscribe_channel(channel_subscriptions, conn[c].user, channel)
          ELSE channel_subscriptions
    /\ room_subscriptions' =
          IF room_id # Null THEN leave_room(room_subscriptions, conn[c].user, room_id)
          ELSE room_subscriptions
    /\ UNCHANGED <<storeVars, restVars, active_connections, user_metadata, wsVars>>

\* a cleanup that forgets the channel sets
KeepChannels(subs, user_id) == subs

\* "for channel in self.channel_subscriptions.values(): channel.discard(user_id)"
\* (websocket.py:161-163)
DiscardFromChannels(subs, user_id) == [ch \in DOMAIN subs |-> subs[ch] \ {user_id}]

\* a cleanup that forgets the rooms
KeepRooms(rooms, user_id) == rooms

\* "for room in self.room_subscriptions.values(): room.discard(user_id)"
\* (websocket.py:165-167); a room left empty stays in the dict
DiscardFromRooms(rooms, user_id) == [r \in DOMAIN rooms |-> rooms[r] \ {user_id}]

\* the body of disconnect's "async with self._lock" block (websocket.py:152-169)
UnregisterSocket(c, user_id) ==
       LET present == user_id \in DOMAIN active_connections
           left == IF present THEN Remove(active_connections[user_id], c) ELSE <<>>
           last == present /\ left = <<>>
       IN  /\ active_connections' =
                 IF ~present THEN active_connections
                 ELSE IF last THEN Del(active_connections, user_id)
                 ELSE [active_connections EXCEPT ![user_id] = left]
           /\ user_metadata' =
                 IF ~present THEN user_metadata
                 ELSE IF last THEN Del(user_metadata, user_id)
                 ELSE IF c \in Range(active_connections[user_id])
                 THEN [user_metadata EXCEPT ![user_id].connection_count = @ - 1]
                 ELSE user_metadata
           /\ channel_subscriptions' =
                 IF last THEN DiscardFromChannels(channel_subscriptions, user_id)
                 ELSE channel_subscriptions
           /\ room_subscriptions' =
                 IF last THEN DiscardFromRooms(room_subscriptions, user_id)
                 ELSE room_subscriptions
           /\ fo' = Mutated(fo, IF last THEN user_id ELSE Null)

\* receive_json raises (the peer closed, or the frame is no JSON) and the endpoint
\* calls manager.disconnect (websocket.py:507-511, 149-171)
Disconnect(c) ==
    /\ conn[c].pc = "loop"
    /\ UnregisterSocket(c, conn[c].user)
    /\ conn' = [conn EXCEPT ![c] = ClosedConn]
    /\ UNCHANGED <<storeVars, restVars, sent, offered>>


(* ----------------- the registry lock, statement by statement ----------- *)
\* a lock that never reports being held
never_locked == FALSE

\* asyncio.Lock.locked() of ConnectionManager._lock (websocket.py:113): some
\* coroutine is inside an "async with self._lock" block
locked == \E c \in Conns : conn[c].lock

\* a call of a manager method that takes the lock
Call(op, arg) == [op |-> op, arg |-> arg]

\* the subscribe_channel calls of the endpoint after manager.connect, in order
\* (websocket.py:385-392)
AutoCalls(role) ==
    LET more == AutoChannels(role) \ {"notification"}
    IN  <<Call("subscribe_channel", "notification")>>
        \o (IF more = {} THEN <<>>
            ELSE <<Call("subscribe_channel", CHOOSE ch \in more : TRUE)>>)

\* the manager calls of the subscribe and unsubscribe branches of the loop
\* (websocket.py:416-428)
MessageCalls(msg_type, channel, room_id) ==
    (IF channel \in ChannelType
     THEN <<Call(IF msg_type = "subscribe" THEN "subscribe_channel"
                 ELSE "unsubscribe_channel", channel)>>
     ELSE <<>>)
    \o (IF room_id # Null
        THEN <<Call(IF msg_type = "subscribe" THEN "join_room" ELSE "leave_room",
                    room_id)>>
        ELSE <<>>)

\* websocket_endpoint up to "await websocket.accept()" (websocket.py:369-383,
\* 123): a bad token closes the socket, otherwise the coroutine suspends in the
\* accept
Handshake(c, token) ==
    /\ FreshConn(c)
    /\ LET user_info == get_token_user(token)
       IN  conn' = [conn EXCEPT ![c] =
                       IF ~token.given \/ user_info = NoUser
                       THEN [ClosedConn EXCEPT !.code = WS_1008_POLICY_VIOLATION]
                       ELSE [LoopConn(user_info.user_id, user_info.role)
                                EXCEPT !.pc = "accept"]]
    /\ UNCHANGED <<storeVars, restVars, registryVars, fo, sent, offered>>

\* the accept is done: connect goes on to its lock block (websocket.py:123-125)
Accepted(c) ==
    /\ conn[c].pc = "accept"
    /\ conn' = [conn EXCEPT ![c].pc = "call", ![c].todo = <<Call("connect", Null)>>]
    /\ UNCHANGED <<storeVars, restVars, registryVars, fo, sent, offered>>

\* the ack of connect is sent (websocket.py:136-145): the endpoint goes on to
\* its subscribe_channel calls
AckSent(c) ==
    /\ conn[c].pc = "ack"
    /\ conn' = [conn EXCEPT ![c].pc = "call", ![c].todo = AutoCalls(conn[c].role)]
    /\ UNCHANGED <<storeVars, restVars, registryVars, fo, sent, offered>>

\* receive_json returns a subscribe or unsubscribe message (websocket.py:397,
\* 416-428)
Received(c, msg_type, channel, room_id) ==
    /\ conn[c].pc = "loop"
    /\ LET calls == MessageCalls(msg_type, channel, room_id)
       IN  conn' = [conn EXCEPT ![c].todo = calls,
                                ![c].pc = IF calls = <<>> THEN "loop" ELSE "call"]
    /\ UNCHANGED <<storeVars, restVars, registryVars, fo, sent, offered>>

\* receive_json raises: the endpoint calls manager.disconnect
\* (websocket.py:507-511)
ReceiveFailed(c) ==
    /\ conn[c].pc = "loop"
    /\ conn' = [conn EXCEPT ![c].pc = "call", ![c].open = FALSE,
                            ![c].todo = <<Call("disconnect", Null)>>]
    /\ UNCHANGED <<storeVars, restVars, registryVars, fo, sent, offered>>

\* "async with self._lock:" on entry (websocket.py:125, 151, 175, 181, 187,
\* 195): the coroutine takes the lock if nobody holds it, and waits otherwise
Acquire(c) ==
    /\ conn[c].pc = "call"
    /\ ~conn[c].lock
    /\ ~locked
    /\ conn' = [conn EXCEPT ![c].lock = TRUE]
    /\ UNCHANGED <<storeVars, restVars, registryVars, fo, sent, offered>>

\* the body of the block the coroutine is in, and the release at its end; the
\* coroutine then goes on to its next call, or to the await that follows the
\* last one
Critical(c) ==
    /\ conn[c].pc = "call"
    /\ conn[c].lock
    /\ LET call == Head(conn[c].todo)
           rest == Tail(conn[c].todo)
           user_id == conn[c].user
       IN  /\ CASE call.op = "connect" ->
                     /\ RegisterSocket(c, user_id, conn[c].role)
                     /\ UNCHANGED <<channel_subscriptions, room_subscriptions>>
                [] call.op = "disconnect" -> UnregisterSocket(c, user_id)
                [] call.op = "subscribe_channel" ->
                     /\ channel_subscriptions' =
                           subscribe_channel(channel_subscriptions, user_id, call.arg)
                     /\ UNCHANGED <<active_connections, user_metadata,
                                    room_subscriptions, fo>>
                [] call.op = "unsubscribe_channel" ->
                     /\ channel_subscriptions' =
                           unsubscribe_channel(channel_subscriptions, user_id, call.arg)
                     /\ UNCHANGED <<active_connections, user_metadata,
                                    room_subscriptions, fo>>
                [] call.op = "join_room" ->
                     /\ room_subscriptions' =
                           join_room(room_subscriptions, user_id, call.arg)
                     /\ UNCHANGED <<active_connections, user_metadata,
                                    channel_subscriptions, fo>>
                [] call.op = "leave_room" ->
                     /\ room_subscriptions' =
                           leave_room(room_subscriptions, user_id, call.arg)
                     /\ UNCHANGED <<active_connections, user_metadata,
                                    channel_subscriptions, fo>>
           /\ conn' = [conn EXCEPT ![c] =
                          IF call.op = "disconnect" THEN ClosedConn
                          ELSE [@ EXCEPT !.lock = FALSE, !.todo = rest,
                                         !.pc = IF rest # <<>> THEN "call"
                                                ELSE IF call.op = "connect" THEN "ack"
                                                ELSE "loop"]]
    /\ UNCHANGED <<storeVars, restVars, sent, offered>>

(* --------------------- send_to_user and its callers -------------------- *)
\* ConnectionManager.send_to_user (websocket.py:214-221) inside a helper that
\* calls it for each of f.calls in turn.  The for loop iterates the registry's
\* own list: each resumption compares the iterator's index with the list's
\* current length, attempts send_json on the next socket and suspends again;
\* a failed send is swallowed.  When the list is exhausted the call returns and
\* the helper goes on to its next call without suspending.
\* an iterator that never advances
FirstSocket(list, idx) == list[1]

\* the list iterator's next element: the one at its index
NextSocket(list, idx) == list[idx + 1]

\* a handler that lets the exception of a failed send end the helper
RaiseSendError(st) ==
    [st EXCEPT !.fo.calls = SubSeq(@, 1, st.fo.k), !.fo.room = Null, !.fo.stale = TRUE]

\* "except Exception as e: print(...)" (websocket.py:220-221): the for loop
\* goes on
OnSendError(st) == st

\* one that sends to the room's members without looking at exclude_user
broadcast_room_echo(rooms, room_id, exclude_user) ==
    IF room_id \notin DOMAIN rooms THEN {} ELSE rooms[room_id]

\* ConnectionManager.broadcast_room (websocket.py:236-250): the identities it
\* calls send_to_user for, from the copy of the room's member set
broadcast_room(rooms, room_id, exclude_user) ==
    IF room_id \notin DOMAIN rooms THEN {} ELSE rooms[room_id] \ {exclude_user}

\* ConnectionManager.broadcast_channel (websocket.py:223-234), likewise
broadcast_channel(subs, channel, exclude_user) == subs[channel] \ {exclude_user}

\* the identities the broadcast_room that ends notify_booking_update will call
\* send_to_user for if it starts now
RoomTargets(f) ==
    IF f.pc = "run" /\ f.room # Null
    THEN broadcast_room(room_subscriptions, f.room, Null) ELSE {}

RECURSIVE RunCalls(_)
RECURSIVE Iterate(_)
Iterate(st) ==
    LET f == st.fo
        user_id == f.calls[f.k]
        list == IF f.stale THEN <<>> ELSE active_connections[user_id]
    IN  IF f.idx < Len(list)
        THEN LET websocket == NextSocket(list, f.idx)
                 tried == [st EXCEPT
                     !.fo.idx = @ + 1,
                     !.fo.att = Append(@, [ws |-> websocket, user |-> conn[websocket].user]),
                     !.fo.env = Append(@, [ws |-> websocket, user |-> conn[websocket].user])]
             IN  IF conn[websocket].open THEN tried
                 ELSE OnSendError([tried EXCEPT !.fo.failed = @ \cup {websocket}])
        ELSE RunCalls([st EXCEPT
                 !.sent = [user |-> user_id, snap |-> f.snap, att |-> f.att,
                           mut |-> f.mut, failed |-> f.failed],
                 !.fo.k = @ + 1])

\* the helper at the start of its call number st.fo.k; st.order is the order in
\* which the room's member set is iterated if the helper reaches its
\* broadcast_room now
RunCalls(st) ==
    LET f == st.fo
    IN  IF f.k > Len(f.calls)
        THEN IF f.room = Null THEN [st EXCEPT !.fo = IdleFanout]
             ELSE RunCalls([st EXCEPT !.fo.calls = @ \o st.order, !.fo.room = Null])
        ELSE LET user_id == f.calls[f.k]
                 online == user_id \in DOMAIN active_connections
                 called == [st EXCEPT
                     !.offered = IF f.kind = "offer"
                                 THEN Append(@, <<f.booking_id, user_id>>) ELSE @,
                     !.fo.idx = 0, !.fo.stale = FALSE, !.fo.att = <<>>,
                     !.fo.mut = FALSE, !.fo.failed = {},
                     !.fo.snap = IF online THEN active_connections[user_id] ELSE <<>>]
             IN  IF ~online
                 THEN RunCalls([called EXCEPT
                          !.sent = [user |-> user_id, snap |-> <<>>, att |-> <<>>,
                                    mut |-> FALSE, failed |-> {}],
                          !.fo.k = @ + 1])
                 ELSE Iterate(called)

\* a helper from its first send_to_user call to its first suspension: calls are
\* the identities it names, room the room it broadcasts to afterwards
StartHelper(kind, booking_id, calls, room, order) ==
    RunCalls([fo |-> [IdleFanout EXCEPT !.pc = "run", !.kind = kind,
                                        !.booking_id = booking_id,
                                        !.calls = calls, !.k = 1, !.room = room],
              sent |-> NoCall, offered |-> offered, order |-> order])

StartFanout(kind, booking_id, calls) == StartHelper(kind, booking_id, calls, Null, <<>>)

\* send_notification(user_id, ...), websocket.py:595-610: one send_to_user call
SendNotification(user_id) ==
    /\ fo.pc = "idle"
    /\ LET st == StartFanout("notification", 0, <<user_id>>)
       IN  /\ fo' = st.fo
           /\ sent' = st.sent
           /\ offered' = st.offered
    /\ UNCHANGED <<storeVars, restVars, registryVars, conn>>

\* the calls that bind a driver to a booking
IsAccept(r) ==
    \/ r.kind = "update_booking_status" /\ r.new_status = "driver_assigned"
    \/ r.kind = "accept_job"

\* the suspended helper resumes after a send_json; when the helper returns, the
\* coroutine that awaited it goes on: create_booking or a status handler
\* responds (bookings.py:418-462, 806, 876), the endpoint returns to its
\* receive loop
FanoutStep ==
    /\ fo.pc = "run"
    /\ \E order \in Orderings(RoomTargets(fo)) :
          LET st == Iterate([fo |-> fo, sent |-> sent, offered |-> offered,
                             order |-> order])
              waiting == {s \in Slots : req[s].pc \in {"offer", "notify"}}
              accepts == {s \in waiting : req[s].pc = "notify" /\ IsAccept(req[s])}
          IN  /\ fo' = st.fo
              /\ sent' = st.sent
              /\ offered' = st.offered
              /\ IF st.fo.pc = "idle"
                 THEN /\ conn' = [c \in Conns |->
                                     IF conn[c].pc = "cast"
                                     THEN [conn[c] EXCEPT !.pc = "loop"] ELSE conn[c]]
                      /\ IF waiting # {}
                         THEN /\ req' = [s \in Slots |->
                                            IF s \in waiting THEN IdleReq ELSE req[s]]
                              /\ resp' = OkResponse
                              /\ accepted' =
                                    IF accepts = {} THEN accepted
                                    ELSE LET s == CHOOSE x \in accepts : TRUE
                                         IN  Append(accepted,
                                                    <<req[s].booking_id, req[s].user>>)
                         ELSE UNCHANGED <<req, resp, accepted>>
                 ELSE UNCHANGED <<conn, req, resp, accepted>>
    /\ UNCHANGED <<storeVars, clock, notified, registryVars>>

(* --------------- the notification of a REST handler -------------------- *)
\* room_id = f"booking:{booking_id}" (websocket.py:546)
BookingRoom(booking_id) == IF booking_id = 1 THEN "booking:1" ELSE "booking:n"


\* a helper that tells the client alone
NotifyClientOnly(n) == <<n.client_id>>

\* the send_to_user calls notify_booking_update makes before its broadcast_room
\* (websocket.py:539-543)
NotifyCalls(n) ==
    <<n.client_id>> \o (IF n.driver_id # Null THEN <<n.driver_id>> ELSE <<>>)

\* the handler returns its success response
Returned(s) ==
    /\ resp' = OkResponse
    /\ accepted' = IF IsAccept(req[s])
                   THEN Append(accepted, <<req[s].booking_id, req[s].user>>)
                   ELSE accepted
    /\ req' = [req EXCEPT ![s] = IdleReq]

\* after the commit: the handler awaits its notify helper (failures are
\* swallowed), which suspends at its first send_json, and then returns the
\* success response.  With no connection registered the helper sends nothing
\* and the handler returns without suspending.
Respond(s) ==
    /\ req[s].pc = "respond"
    /\ notified' = notified \cup Notification(req[s])
    /\ IF Notification(req[s]) = {} \/ active_connections = EmptyDict
       THEN Returned(s) /\ UNCHANGED <<fo, sent, offered>>
       ELSE /\ fo.pc = "idle"
            /\ \E n \in Notification(req[s]) :
               \E order \in Orderings(broadcast_room(room_subscriptions,
                                                     BookingRoom(n.booking_id), Null)) :
                  LET st == StartHelper(n.type, n.booking_id, NotifyCalls(n),
                                        BookingRoom(n.booking_id), order)
                  IN  /\ fo' = st.fo
                      /\ sent' = st.sent
                      /\ offered' = st.offered
                      /\ IF st.fo.pc = "idle" THEN Returned(s)
                         ELSE /\ req' = [req EXCEPT ![s].pc = "notify"]
                              /\ UNCHANGED <<resp, accepted>>
    /\ UNCHANGED <<storeVars, clock, registryVars, conn>>

(* ------------------ messages in the receive loop ----------------------- *)
\* the peer goes away while the endpoint coroutine is not in receive_json: the
\* socket stays registered until the coroutine receives again
TransportClose(c) ==
    /\ conn[c].pc \in {"ack", "loop", "cast"}
    /\ conn[c].open
    /\ conn' = [conn EXCEPT ![c].open = FALSE]
    /\ UNCHANGED <<storeVars, restVars, registryVars, fo, sent, offered>>

\* a message whose type is none of the handled ones: the else branch sends an
\* error envelope on the socket it came from (websocket.py:495-505)
UnknownMessage(c) ==
    /\ conn[c].pc = "loop"
    /\ conn[c].open
    /\ conn' = [conn EXCEPT ![c].got = "error"]
    /\ UNCHANGED <<storeVars, restVars, registryVars, fo, sent, offered>>

\* a frame that is no JSON text, or JSON that is no object: receive_json or
\* data.get raises, "except Exception" calls manager.disconnect and the
\* endpoint returns (websocket.py:397-401, 509-511)
MalformedMessage(c) == conn[c].open /\ Disconnect(c)

\* a driver_location_update message (websocket.py:430-458): from a driver it is
\* broadcast to the room named in the payload or, without one, to the
\* driver_location channel, the sender excluded; the endpoint awaits the
\* broadcast.  From any other role it is dropped.
LocationUpdate(c, room_id) ==
    /\ conn[c].pc = "loop"
    /\ conn[c].open
    /\ fo.pc = "idle"
    /\ IF conn[c].role # "driver" THEN UNCHANGED <<conn, fo, sent, offered>>
       ELSE \E order \in Orderings(
                   IF room_id # Null
                   THEN broadcast_room(room_subscriptions, room_id, conn[c].user)
                   ELSE broadcast_channel(channel_subscriptions, "driver_location",
                                          conn[c].user)) :
               LET st == StartFanout(IF room_id # Null THEN "location_room"
                                                        ELSE "location_channel",
                                     0, order)
               IN  /\ fo' = st.fo
                   /\ sent' = st.sent
                   /\ offered' = st.offered
                   /\ conn' = IF st.fo.pc = "idle" THEN conn
                              ELSE [conn EXCEPT ![c].pc = "cast"]
    /\ UNCHANGED <<storeVars, restVars, registryVars>>


(* ------------------ broadcasts by role and to everyone ----------------- *)
\* ConnectionManager.broadcast_by_role (websocket.py:262-271): the identities of
\* the snapshot of user_metadata whose role is the given one
broadcast_by_role(metadata, role, exclude_user) ==
    {user_id \in DOMAIN metadata : metadata[user_id].role = role} \ {exclude_user}

\* ConnectionManager.broadcast_all (websocket.py:252-260): the keys of the
\* snapshot of active_connections
broadcast_all(connections, exclude_user) == DOMAIN connections \ {exclude_user}

\* notify_new_support_ticket (websocket.py:580-591)
NotifyNewSupportTicket ==
    /\ fo.pc = "idle"
    /\ \E order \in Orderings(broadcast_by_role(user_metadata, "admin", Null)) :
          LET st == StartFanout("new_support_ticket", 0, order)
          IN  /\ fo' = st.fo
              /\ sent' = st.sent
              /\ offered' = st.offered
    /\ UNCHANGED <<storeVars, restVars, registryVars, conn>>

\* manager.broadcast_all(message) with no exclude_user
BroadcastAll ==
    /\ fo.pc = "idle"
    /\ \E order \in Orderings(broadcast_all(active_connections, Null)) :
          LET st == StartFanout("broadcast_all", 0, order)
          IN  /\ fo' = st.fo
              /\ sent' = st.sent
              /\ offered' = st.offered
    /\ UNCHANGED <<storeVars, restVars, registryVars, conn>>

(* -------------------- driver profiles (drivers.py) --------------------- *)
\* get_driver_profile, drivers.py:93-125: creates the caller's row if missing
GetDriverProfile(user_id) ==
    /\ IF ~RequireDriver(user_id)
       THEN /\ resp' = [code |-> "forbidden", detail |-> "insufficient_permissions"]
            /\ profiles' = profiles
       ELSE /\ resp' = OkResponse
            /\ profiles' = IF profiles[user_id] = NoProfile
                           THEN [profiles EXCEPT ![user_id] = Profile("pending", "offline")]
                           ELSE profiles
    /\ UNCHANGED <<bookings, events, req, clock, accepted, notified, registryVars, wsVars>>

\* update_driver_status, drivers.py:128-175
UpdateDriverStatus(user_id, availability_status) ==
    /\ IF ~RequireDriver(user_id)
       THEN /\ resp' = [code |-> "forbidden", detail |-> "insufficient_permissions"]
            /\ profiles' = profiles
       ELSE IF availability_status \notin {"available", "busy", "offline"}
       THEN /\ resp' = [code |-> "bad_request", detail |-> "invalid_availability"]
            /\ profiles' = profiles
       ELSE IF profiles[user_id] = NoProfile
       THEN /\ resp' = OkResponse
            /\ profiles' = [profiles EXCEPT
                               ![user_id] = Profile("approved", availability_status)]
       ELSE IF profiles[user_id].status # "approved"
       THEN /\ resp' = [code |-> "bad_request", detail |-> "driver_not_approved_for_status"]
            /\ profiles' = profiles
       ELSE /\ resp' = OkResponse
            /\ profiles' = [profiles EXCEPT
                               ![user_id].availability_status = availability_status]
    /\ UNCHANGED <<bookings, events, req, clock, accepted, notified, registryVars, wsVars>>

(* ------------------- create_booking and its dispatch ------------------- *)
\* the users who book rides
Clients == {u \in Users : "client" \in RolesOf(u)}

\* create_booking up to its commit (bookings.py:249-371): without a default
\* payment method the request is refused, otherwise the booking and its
\* booking.created event are inserted
CreateBooking(s, client_id, has_payment_method) ==
    /\ FreeSlot(s)
    /\ IF ~has_payment_method
       THEN /\ resp' = [code |-> "bad_request", detail |-> "payment_method_required"]
            /\ UNCHANGED <<bookings, events, req>>
       ELSE /\ Len(bookings) < MaxBookings
            /\ bookings' = Append(bookings, NewBooking(client_id))
            /\ events' = Append(events, Event(Len(bookings) + 1, client_id,
                                              <<"booking", "created">>, Null))
            /\ req' = [req EXCEPT ![s] =
                          [IdleReq EXCEPT !.pc = "query", !.kind = "create_booking",
                                          !.user = client_id,
                                          !.booking_id = Len(bookings) + 1]]
            /\ resp' = resp
    /\ UNCHANGED <<profiles, clock, accepted, notified, registryVars, wsVars>>

\* the SELECT of the approved and available profiles (bookings.py:384-390);
\* user_id is the table's primary key (models.py:119)
QueryDrivers(s) ==
    /\ req[s].pc = "query"
    /\ \E rows \in Orderings({u \in Users :
                                /\ profiles[u].status = "approved"
                                /\ profiles[u].availability_status = "available"}) :
          req' = [req EXCEPT ![s].pc = "dispatch", ![s].rows = rows]
    /\ UNCHANGED <<storeVars, clock, resp, accepted, notified, registryVars, wsVars>>

\* a lookup that ignores the role
get_online_users == DOMAIN user_metadata


\* ConnectionManager.is_user_online (websocket.py:277-279)
is_user_online(user_id) == user_id \in DOMAIN active_connections

\* websocket.py:643-649
get_online_drivers ==
    {user_id \in DOMAIN user_metadata : user_metadata[user_id].role = "driver"}

\* bookings.py:393-397
AvailableOnlineDrivers(available_driver_ids) ==
    LET online_drivers == get_online_drivers
        IsOnline(driver_id) == driver_id \in online_drivers
    IN  SelectSeq(available_driver_ids, IsOnline)

\* create_booking from the registry lookup to the first suspension of
\* notify_new_booking_offer, or to the response when nobody is to be notified
\* (bookings.py:393-462, websocket.py:613-640); one helper runs at a time
DispatchOffer(s) ==
    /\ req[s].pc = "dispatch"
    /\ LET available_online_drivers == AvailableOnlineDrivers(req[s].rows)
       IN  IF available_online_drivers = <<>>
           THEN /\ req' = [req EXCEPT ![s] = IdleReq]
                /\ resp' = OkResponse
                /\ UNCHANGED <<fo, sent, offered>>
           ELSE /\ fo.pc = "idle"
                /\ LET st == StartFanout("offer", req[s].booking_id,
                                         available_online_drivers)
                   IN  /\ fo' = st.fo
                       /\ sent' = st.sent
                       /\ offered' = st.offered
                       /\ IF st.fo.pc = "idle"
                          THEN req' = [req EXCEPT ![s] = IdleReq] /\ resp' = OkResponse
                          ELSE req' = [req EXCEPT ![s].pc = "offer"] /\ resp' = resp
    /\ UNCHANGED <<storeVars, clock, accepted, notified, registryVars, conn>>

(* ------------------------- initial states ------------------------------ *)
InitRest ==
    /\ req = [s \in Slots |-> IdleReq]
    /\ clock = 1
    /\ resp = NoResponse
    /\ accepted = <<>>
    /\ notified = {}

\* the lifecycle chain of update_booking_status's docstring (bookings.py:664-669)
Chain ==
    <<"requested", "driver_assigned", "driver_en_route_pickup", "driver_arrived",
      "in_progress", "completed">>

\* the booking after client c1 created it and driver d1 alone took it through
\* the first k transitions with update_booking_status, one call after the other
StageRow(k) ==
    [client_id |-> "c1", driver_id |-> IF k = 0 THEN Null ELSE "d1",
     status |-> Chain[k + 1], started_at |-> IF k >= 4 THEN 1 ELSE 0,
     completed_at |-> 0, cancelled_at |-> 0]

\* and the events those calls inserted
StageLog(k) ==
    <<Event(1, "c1", <<"booking", "created">>, Null)>> \o
    [i \in 1..k |-> Event(1, "d1", <<"booking", Chain[i + 1]>>, Chain[i + 1])]

\* one booking at any non-terminal point of its life, two approved drivers who
\* have set themselves available, and no request in flight
InitBooking ==
    /\ \E k \in 0..4 :
          /\ bookings = <<StageRow(k)>>
          /\ events = StageLog(k)
    /\ profiles = [u \in Users |-> IF IsDriver(u) THEN Profile("approved", "available")
                                                 ELSE NoProfile]
    /\ InitRest
    /\ InitRegistry

\* the callers of the booking scenarios: the client, two drivers and an admin
Callers == {"c1", "d1", "d2", "a1"}

NextBooking ==
    \/ \E s \in Slots, u \in Callers, b \in BookingIdInputs, ns \in StatusInputs :
          UpdateBookingStatus(s, u, b, ns)
    \/ \E s \in Slots, u \in Callers, b \in BookingIdInputs : CancelBooking(s, u, b)
    \/ \E s \in Slots, u \in Callers, b \in BookingIdInputs : AcceptJob(s, u, b)
    \/ \E s \in Slots, u \in Callers, b \in BookingIdInputs : ArriveAtPickup(s, u, b)
    \/ \E s \in Slots, u \in Callers, b \in BookingIdInputs : StartTrip(s, u, b)
    \/ \E s \in Slots, u \in Callers, b \in BookingIdInputs : CompleteTrip(s, u, b)
    \/ \E s \in Slots : DbCommit(s)
    \/ \E s \in Slots : Respond(s)

SpecBooking == InitBooking /\ [][NextBooking]_vars

\* the same booking with every user, the support agent included, calling the
\* two status handlers of bookings.py
NextSupport ==
    \/ \E s \in Slots, u \in Users, b \in BookingIdInputs, ns \in StatusInputs :
          UpdateBookingStatus(s, u, b, ns)
    \/ \E s \in Slots, u \in Users, b \in BookingIdInputs : CancelBooking(s, u, b)
    \/ \E s \in Slots : DbCommit(s)
    \/ \E s \in Slots : Respond(s)

SpecSupport == InitBooking /\ [][NextSupport]_vars

\* the WebSocket endpoint alone: handshakes, subscriptions, disconnects and
\* direct notifications over an empty store
InitWS ==
    /\ bookings = <<>>
    /\ events = <<>>
    /\ profiles = [u \in Users |-> NoProfile]
    /\ InitRest
    /\ InitRegistry

NextWS ==
    \/ \E c \in Conns, token \in Tokens({"c1", "d1"}) : Connect(c, token)
    \/ \E c \in Conns : AutoSubscribe(c)
    \/ \E c \in Conns, channel \in ChannelInputs, room_id \in RoomInputs :
          Subscribe(c, channel, room_id)
    \/ \E c \in Conns, channel \in ChannelInputs, room_id \in RoomInputs :
          Unsubscribe(c, channel, room_id)
    \/ \E c \in Conns : Disconnect(c)
    \/ \E u \in Callers : SendNotification(u)
    \/ FanoutStep

SpecWS == InitWS /\ [][NextWS]_vars

\* the receive loop alone: clients connect, send messages the endpoint does
\* not understand, and leave
NextLoop ==
    \/ \E c \in Conns, token \in Tokens({"c1", "d1"}) : Connect(c, token)
    \/ \E c \in Conns : AutoSubscribe(c)
    \/ \E c \in Conns : Subscribe(c, "bogus", "booking:1")
    \/ \E c \in Conns : UnknownMessage(c)
    \/ \E c \in Conns : MalformedMessage(c)
    \/ \E c \in Conns : Disconnect(c)

SpecLoop == InitWS /\ [][NextLoop]_vars


\* the endpoint coroutines followed from one await or lock block to the next
NextLock ==
    \/ \E c \in 1..MaxOnline, token \in Tokens({"c1", "d1"}) : Handshake(c, token)
    \/ \E c \in Conns : Accepted(c)
    \/ \E c \in Conns : AckSent(c)
    \/ \E c \in Conns, msg_type \in {"subscribe", "unsubscribe"},
          channel \in ChannelInputs, room_id \in RoomInputs :
          Received(c, msg_type, channel, room_id)
    \/ \E c \in Conns : ReceiveFailed(c)
    \/ \E c \in Conns : Acquire(c)
    \/ \E c \in Conns : Critical(c)

SpecLock == InitWS /\ [][NextLock]_vars



\* connections made with tokens of different primary roles, and the helpers
\* that pick identities by role
NextRoles ==
    \/ \E c \in Conns, token \in RoleTokens : Connect(c, token)
    \/ \E c \in Conns : AutoSubscribe(c)
    \/ \E c \in Conns : Disconnect(c)
    \/ NotifyNewSupportTicket
    \/ FanoutStep

SpecRoles == InitWS /\ [][NextRoles]_vars


\* connections whose peers go away while their handlers are anywhere between
\* the ack and the receive loop, a location broadcast included
NextFair ==
    \/ \E c \in 1..MaxOnline, u \in {"c1", "d1"} : Connect(c, Token(u))
    \/ \E c \in Conns : AutoSubscribe(c)
    \/ \E c \in Conns : Subscribe(c, "bogus", "booking:1")
    \/ \E c \in Conns : TransportClose(c)
    \/ \E c \in Conns : Disconnect(c)
    \/ \E c \in Conns : LocationUpdate(c, "booking:1")
    \/ FanoutStep

\* the event loop resumes every coroutine that is ready: a handler whose ack is
\* sent goes on to its subscriptions, a helper goes on after each send_json,
\* and a handler that is in receive_json on a socket whose peer is gone gets
\* the exception and runs manager.disconnect (websocket.py:394-397, 507-511)
Fairness ==
    /\ \A c \in Conns : WF_vars(AutoSubscribe(c))
    /\ WF_vars(FanoutStep)
    /\ \A c \in Conns : WF_vars(~conn[c].open /\ Disconnect(c))

SpecFair == InitWS /\ [][NextFair]_vars /\ Fairness


\* a booking waits for a driver while the drivers have no profile yet: they
\* open their profile page, set their availability, and accept
InitOnboard ==
    /\ bookings = <<StageRow(0)>>
    /\ events = StageLog(0)
    /\ profiles = [u \in Users |-> NoProfile]
    /\ InitRest
    /\ InitRegistry

NextOnboard ==
    \/ \E u \in {"d1", "d2"} : GetDriverProfile(u)
    \/ \E u \in {"d1", "d2"}, a \in AvailabilityInputs : UpdateDriverStatus(u, a)
    \/ \E s \in Slots, u \in {"d1", "d2"} :
          UpdateBookingStatus(s, u, 1, "driver_assigned")
    \/ \E s \in Slots, u \in {"d1", "d2"} : AcceptJob(s, u, 1)
    \/ \E s \in Slots : DbCommit(s)
    \/ \E s \in Slots : Respond(s)

SpecOnboard == InitOnboard /\ [][NextOnboard]_vars

\* the users who pass require_driver
Staff == {u \in Users : RequireDriver(u)}

\* the dispatch of a new booking's offer: drivers come online and go offline,
\* set their availability, and a client books
NextDispatch ==
    \/ \E c \in 1..MaxOnline, u \in Staff : Connect(c, Token(u))
    \/ \E c \in Conns : AutoSubscribe(c)
    \/ \E c \in Conns : Disconnect(c)
    \/ \E u \in Staff : GetDriverProfile(u)
    \/ \E u \in Staff, a \in AvailabilityInputs : UpdateDriverStatus(u, a)
    \/ \E s \in Slots, u \in Clients, paid \in BOOLEAN : CreateBooking(s, u, paid)
    \/ \E s \in Slots : QueryDrivers(s)
    \/ \E s \in Slots : DispatchOffer(s)
    \/ FanoutStep

SpecDispatch == InitWS /\ [][NextDispatch]_vars


\* the location broadcasts: three identities connect, join the booking's room
\* and leave, and drivers publish their location
Riders == {"c1", "d1", "a1"}

NextBroker ==
    \/ \E c \in Conns, u \in Riders : Connect(c, Token(u))
    \/ \E c \in Conns : AutoSubscribe(c)
    \/ \E c \in Conns : Subscribe(c, "bogus", "booking:1")
    \/ \E c \in Conns : Disconnect(c)
    \/ \E c \in Conns, room_id \in RoomInputs : LocationUpdate(c, room_id)
    \/ FanoutStep

SpecBroker == InitWS /\ [][NextBroker]_vars

\* every broadcast of the manager over sockets whose peer may have gone away
NextCast ==
    \/ \E c \in 1..MaxOnline, u \in Riders : Connect(c, Token(u))
    \/ \E c \in Conns : AutoSubscribe(c)
    \/ \E c \in Conns : Subscribe(c, "bogus", "booking:1")
    \/ \E c \in Conns : Disconnect(c)
    \/ \E c \in Conns : TransportClose(c)
    \/ \E c \in Conns, room_id \in RoomInputs : LocationUpdate(c, room_id)
    \/ NotifyNewSupportTicket
    \/ BroadcastAll
    \/ FanoutStep

SpecCast == InitWS /\ [][NextCast]_vars


\* a booking that driver d1 has accepted is cancelled while its client and its
\* driver come online, join the booking's room and leave
InitNotify ==
    /\ bookings = <<StageRow(1)>>
    /\ events = StageLog(1)
    /\ profiles = [u \in Users |-> IF IsDriver(u) THEN Profile("approved", "available")
                                                 ELSE NoProfile]
    /\ InitRest
    /\ InitRegistry

NextNotify ==
    \/ \E c \in 1..MaxOnline, u \in {"c1", "d1"} : Connect(c, Token(u))
    \/ \E c \in Conns : AutoSubscribe(c)
    \/ \E c \in Conns : Subscribe(c, "bogus", "booking:1")
    \/ \E c \in Conns : Disconnect(c)
    \/ \E s \in Slots, u \in {"c1", "d1"} : CancelBooking(s, u, 1)
    \/ \E s \in Slots : DbCommit(s)
    \/ \E s \in Slots : Respond(s)
    \/ FanoutStep

SpecNotify == InitNotify /\ [][NextNotify]_vars

\* a booking waiting for a driver while its client and the drivers are
\* connected or not: the drivers accept it with update_booking_status
InitAccept ==
    /\ bookings = <<StageRow(0)>>
    /\ events = StageLog(0)
    /\ profiles = [u \in Users |-> IF IsDriver(u) THEN Profile("approved", "available")
                                                 ELSE NoProfile]
    /\ InitRest
    /\ InitRegistry

NextAccept ==
    \/ \E c \in 1..MaxOnline, u \in Riders : Connect(c, Token(u))
    \/ \E c \in Conns : AutoSubscribe(c)
    \/ \E c \in Conns : Subscribe(c, "bogus", "booking:1")
    \/ \E c \in Conns : Disconnect(c)
    \/ \E c \in Conns : TransportClose(c)
    \/ \E s \in Slots, u \in {"d1", "d2"} :
          UpdateBookingStatus(s, u, 1, "driver_assigned")
    \/ \E s \in Slots : DbCommit(s)
    \/ \E s \in Slots : Respond(s)
    \/ FanoutStep

SpecAccept == InitAccept /\ [][NextAccept]_vars

(* ======================= the booking state machine ===================== *)
\* the cancellation and no-show states: the value cancel_booking writes and
\* those of BookingStatus
CancellationStates ==
    {"cancelled", "canceled_by_client", "canceled_by_driver", "canceled_by_system",
     "no_show_client", "no_show_driver"}

TerminalStates == {"completed"} \cup CancellationStates

\* the transition table of update_booking_status
TransitionTable == {<<Chain[i], Chain[i + 1]>> : i \in 1..5}

Position(status) == CHOOSE i \in 1..6 : Chain[i] = status

AllIdle == \A s \in Slots : req[s].pc = "idle"

\* C1: of the accept calls racing for one requested booking exactly one returns
\* success, and once all have returned the booking's driver is that caller
C1_ExactlyOneAcceptWins ==
    \A b \in DOMAIN bookings :
        LET wins == {i \in DOMAIN accepted : accepted[i][1] = b}
        IN  /\ Cardinality(wins) <= 1
            /\ (AllIdle /\ wins # {}) =>
                   \E i \in wins : bookings[b].driver_id = accepted[i][2]

\* C2: once a booking's driver_id is non-null no step changes it
C2_DriverBindingPermanent ==
    [][\A b \in DOMAIN bookings :
          bookings[b].driver_id # Null =>
              bookings'[b].driver_id = bookings[b].driver_id]_vars

\* C3: update_booking_status with a (current status, requested status) pair
\* outside the transition table returns an error and leaves the booking, the
\* event log, the pending work and the notifications as they were
C3_InvalidPairRejected ==
    [][\A s \in Slots, u \in Users, b \in DOMAIN bookings, ns \in StatusInputs :
          (/\ FreeSlot(s)
           /\ <<bookings[b].status, ns>> \notin TransitionTable
           /\ UpdateBookingStatus(s, u, b, ns))
          => /\ resp'.code \in {"forbidden", "bad_request"}
             /\ UNCHANGED <<bookings, events, profiles, req, notified, accepted>>]_vars

\* the spec's scenario: driver_assigned was requested for the booking in
\* in_progress, the call was refused and the booking is as it was
C3_Witness ==
    /\ bookings = <<StageRow(4)>>
    /\ events = StageLog(4)
    /\ resp = [code |-> "bad_request", detail |-> "not_requested"]

\* C4: a booking whose status is completed or a cancellation state keeps it
C4_TerminalIsFinal ==
    [][\A b \in DOMAIN bookings :
          bookings[b].status \in TerminalStates =>
              bookings'[b].status = bookings[b].status]_vars

\* C5: every committed change of a booking's status is a move forward in the
\* chain or a move into a cancellation state
C5_StatusOnlyForward ==
    [][\A b \in DOMAIN bookings :
          LET old == bookings[b].status
              new == bookings'[b].status
          IN  \/ new = old
              \/ new \in CancellationStates
              \/ /\ old \in {Chain[i] : i \in 1..6}
                 /\ new \in {Chain[i] : i \in 1..6}
                 /\ Position(new) > Position(old)]_vars

ChannelsOf(subs, u) == {ch \in DOMAIN subs : u \in subs[ch]}

RoomsOf(rooms, u) == {r \in DOMAIN rooms : u \in rooms[r]}

\* C6: the disconnect of an identity's last registered connection leaves it in
\* no channel set and no room; the connect that brings an offline identity back
\* finds it in none, and the endpoint then adds exactly the notification channel
\* and the channel of its role, and no room
C6_PresenceCleanupExact ==
    [][\A c \in Conns :
          /\ (Disconnect(c) /\ active_connections[conn[c].user] = <<c>>)
             => /\ ChannelsOf(channel_subscriptions', conn[c].user) = {}
                /\ RoomsOf(room_subscriptions', conn[c].user) = {}
          /\ \A token \in Tokens(Users) :
                (Connect(c, token) /\ token.sub \notin DOMAIN active_connections
                                   /\ token.sub # Null)
                => /\ active_connections'[token.sub] = <<c>>
                   /\ ChannelsOf(channel_subscriptions', token.sub) = {}
                   /\ RoomsOf(room_subscriptions', token.sub) = {}
          /\ AutoSubscribe(c)
             => /\ ChannelsOf(channel_subscriptions', conn[c].user) =
                      ChannelsOf(channel_subscriptions, conn[c].user)
                         \cup {"notification"}
                         \cup (IF conn[c].role = "driver" THEN {"driver_location"} ELSE {})
                         \cup (IF conn[c].role = "admin" THEN {"admin"} ELSE {})
                /\ RoomsOf(room_subscriptions', conn[c].user) =
                      RoomsOf(room_subscriptions, conn[c].user)]_vars

\* c1's first session joined room booking:1 (the emptied room is still in the
\* dict) and ended; its second session is in the loop with the notification
\* channel only
C6_Witness ==
    /\ conn[1] = ClosedConn
    /\ conn[2] = LoopConn("c1", "client")
    /\ active_connections = [u \in {"c1"} |-> <<2>>]
    /\ room_subscriptions = [r \in {"booking:1"} |-> {}]
    /\ channel_subscriptions =
          [ch \in ChannelType |-> IF ch = "notification" THEN {"c1"} ELSE {}]

\* C7: every identity in a channel set or a room has a registered connection
\* whose endpoint coroutine is still running for that identity
C7_MembersAreOnline ==
    \A u \in Users :
        (ChannelsOf(channel_subscriptions, u) # {} \/ RoomsOf(room_subscriptions, u) # {})
        => /\ u \in DOMAIN active_connections
           /\ active_connections[u] # <<>>
           /\ \A c \in Range(active_connections[u]) :
                 conn[c].pc \in {"ack", "loop"} /\ conn[c].user = u

\* d1 came and went with its memberships; c1 lost one of its two connections
\* and keeps its channel and room through the other
C7_Witness ==
    /\ conn[1] = ClosedConn
    /\ conn[2] = ClosedConn
    /\ active_connections = [u \in {"c1"} |-> <<3>>]
    /\ "c1" \in channel_subscriptions["booking"]
    /\ room_subscriptions = [r \in {"booking:1"} |-> {"c1"}]

\* the sockets registered for an identity, tagged with it
Registered(u) ==
    IF u \in DOMAIN active_connections
    THEN [i \in DOMAIN active_connections[u] |-> [ws |-> active_connections[u][i], user |-> u]]
    ELSE <<>>

\* C8: when a send_to_user call returns and active_connections did not change
\* during it, it has attempted exactly one send on each socket registered for
\* the identity, each socket being one of that identity, and none on any other
\* socket; for an identity without an entry it has attempted nothing
C8_FanOutExact ==
    [][((\/ FanoutStep
         \/ \E u \in Users : SendNotification(u))
        /\ fo'.pc = "idle" /\ ~sent'.mut)
       => /\ sent'.att = Registered(sent'.user)
          /\ \A i, j \in DOMAIN sent'.att : sent'.att[i] = sent'.att[j] => i = j
          /\ \A i \in DOMAIN sent'.att :
                conn[sent'.att[i].ws].user = sent'.user]_vars

\* d1 has two sockets and c1 one; a notification for d1 went to d1's two
C8_Witness ==
    /\ sent.user = "d1"
    /\ ~sent.mut
    /\ Len(sent.att) = 2
    /\ "c1" \in DOMAIN active_connections
    /\ fo.pc = "idle"

(* ========================== the offer dispatch ========================= *)
\* send_to_user calls notify_new_booking_offer has made for a booking, in order
RECURSIVE OffersOf(_, _)
OffersOf(log, b) ==
    IF log = <<>> THEN <<>>
    ELSE IF Head(log)[1] = b THEN <<Head(log)[2]>> \o OffersOf(Tail(log), b)
    ELSE OffersOf(Tail(log), b)

Enumerates(list, S) == Range(list) = S /\ Len(list) = Cardinality(S)

\* C9: create_booking's store query returns the approved and available
\* profiles; its dispatch step leaves the booking alone and takes as recipients
\* exactly those of them that are online in the registry with role driver, each
\* once; with no recipient it starts no offer; and notify_new_booking_offer
\* calls send_to_user once for each recipient and for nobody else
C9_OfferTargetsEligible ==
    [][/\ \A s \in Slots :
             /\ QueryDrivers(s)
                => Enumerates(req'[s].rows,
                              {u \in Users : profiles[u] = Profile("approved", "available")})
             /\ DispatchOffer(s)
                => LET D == {u \in Range(req[s].rows) :
                                /\ u \in DOMAIN active_connections
                                /\ user_metadata[u].role = "driver"}
                   IN  /\ bookings' = bookings
                       /\ bookings[req[s].booking_id].status = "requested"
                       /\ IF D = {}
                          THEN offered' = offered /\ fo' = fo /\ req'[s].pc = "idle"
                          ELSE /\ fo'.pc = "run" /\ fo'.kind = "offer"
                               /\ fo'.booking_id = req[s].booking_id
                               /\ Enumerates(fo'.calls, D)
       /\ (fo'.pc = "run" /\ fo'.kind = "offer")
          => OffersOf(offered', fo'.booking_id) = SubSeq(fo'.calls, 1, fo'.k)
       /\ (fo.pc = "run" /\ fo.kind = "offer" /\ fo'.pc = "idle")
          => OffersOf(offered', fo.booking_id) = fo.calls]_vars

\* d1 was the one eligible driver and got the one offer; d2 is available but
\* offline, and a1, available and online as admin, got none
C9_Witness ==
    /\ offered = <<<<1, "d1">>>>
    /\ \A s \in Slots : req[s].pc = "idle"
    /\ profiles["d2"] = Profile("approved", "available")
    /\ profiles["a1"] = Profile("approved", "available")
    /\ "a1" \in DOMAIN user_metadata
    /\ "d2" \notin DOMAIN user_metadata
    /\ bookings[1].status = "requested"

(* ====================== events, actors and statuses ==================== *)
\* the handlers that change a booking's status through the REST API of
\* bookings.py
StatusHandlers == {"update_booking_status", "cancel_booking"}

\* C12: the commit of an accepted status transition appends exactly one event,
\* whose actor is the caller, whose from-state is the status the handler found
\* on the booking and whose to-state is the status it wrote; no other step of a
\* status handler, in particular no rejected call, changes the event log
C12_EventRecordsTransition ==
    [][\A s \in Slots :
          /\ (req[s].pc = "commit" /\ req[s].kind \in StatusHandlers /\ DbCommit(s))
             => /\ Len(events') = Len(events) + 1
                /\ LET e == events'[Len(events')]
                   IN  /\ e.booking_id = req[s].booking_id
                       /\ e.actor_id = req[s].user
                       /\ e.previous_status = req[s].loaded.status
                       /\ e.event_type = <<"booking", req[s].obj.status>>
          /\ \A u \in Users, b \in DOMAIN bookings, ns \in StatusInputs :
                (FreeSlot(s) /\ (UpdateBookingStatus(s, u, b, ns) \/ CancelBooking(s, u, b)))
                => events' = events]_vars

\* the targets of the trip progress branch (bookings.py:715)
ProgressTargets == {"driver_en_route_pickup", "driver_arrived", "in_progress", "completed"}

\* C18: update_booking_status called for driver_assigned by a caller who is
\* neither driver nor admin, or for a trip progress status by a caller who is
\* neither the booking's bound driver nor an admin, answers forbidden and leaves
\* the booking, the event log and the pending work as they were
C18_OnlyPermittedActors ==
    [][\A s \in Slots, u \in Users, b \in DOMAIN bookings, ns \in StatusInputs :
          LET permitted ==
                  /\ ns = "driver_assigned" => RolesOf(u) \cap {"driver", "admin"} # {}
                  /\ ns \in ProgressTargets =>
                        (bookings[b].driver_id = u \/ "admin" \in RolesOf(u))
          IN  (FreeSlot(s) /\ ~permitted /\ UpdateBookingStatus(s, u, b, ns))
              => /\ resp'.code = "forbidden"
                 /\ UNCHANGED <<bookings, events, profiles, req, notified, accepted>>]_vars

\* C20: the status of every booking row is a value of BookingStatus
C20_StatusInEnumeration ==
    \A b \in DOMAIN bookings : bookings[b].status \in BookingStatus


(* ============================ the broker =============================== *)
\* the identities an envelope was sent to
Receivers(env) == {env[i].user : i \in DOMAIN env}

\* C11: a driver_location_update with a room_id, sent by a driver, makes the
\* endpoint call send_to_user once for each member of the room other than the
\* sender and for nobody else (from another role, or with no other member, it
\* sends nothing); while the broadcast runs every send goes to a socket of one
\* of those members, so that neither the sender nor an identity outside the room
\* receives it; and when it returns with the registry as it was, every one of
\* those members has been sent the envelope
C11_RoomLocationToMembersOnly ==
    [][/\ \A c \in Conns, room_id \in RoomInputs \ {Null} :
             (conn[c].pc = "loop" /\ LocationUpdate(c, room_id))
             => LET members == IF room_id \in DOMAIN room_subscriptions
                               THEN room_subscriptions[room_id] ELSE {}
                    targets == IF conn[c].role = "driver"
                               THEN members \ {conn[c].user} ELSE {}
                IN  IF targets = {} THEN fo' = fo
                    ELSE /\ fo'.pc = "run" /\ fo'.kind = "location_room"
                         /\ Enumerates(fo'.calls, targets)
                         /\ Receivers(fo'.env) \subseteq targets
       /\ (FanoutStep /\ fo.kind = "location_room")
          => /\ fo'.pc = "run" => /\ fo'.calls = fo.calls
                                  /\ Receivers(fo'.env) \subseteq Range(fo.calls)
             /\ (fo'.pc = "idle" /\ ~fo.dirty) => Receivers(fo.env) = Range(fo.calls)]_vars

\* driver d1 and client c1 are in room booking:1 and a1 is online outside it;
\* d1's location went to c1's socket alone
C11_Witness ==
    /\ room_subscriptions = [r \in {"booking:1"} |-> {"c1", "d1"}]
    /\ "a1" \in DOMAIN active_connections
    /\ fo.kind = "location_room"
    /\ fo.calls = <<"c1">>
    /\ Receivers(fo.env) = {"c1"}
    /\ \E c \in Conns : conn[c].pc = "cast" /\ conn[c].user = "d1"


\* the step on which the send_to_user call a helper is in returns
CallReturns == FanoutStep /\ (fo'.pc = "idle" \/ fo'.k > fo.k)

NoRepeat(list) == \A i, j \in DOMAIN list : list[i] = list[j] => i = j

\* C13: in every helper a send that failed changes nothing for the other
\* sockets: the call still attempts the next registered socket, and when it
\* returns with the registry as it was at its start it has attempted each
\* socket registered for the identity exactly once, the failed ones included;
\* the helper is not ended by the failure: it goes on with the same list of
\* calls, and returns only when every remaining identity is offline
C13_FailedSendIsolated ==
    [][FanoutStep
       => LET user_id == fo.calls[fo.k]
              list == IF fo.stale THEN <<>> ELSE active_connections[user_id]
          IN  /\ fo.idx < Len(list)
                 => /\ fo'.att = Append(fo.att, [ws |-> list[fo.idx + 1], user |-> user_id])
                    /\ fo'.failed = fo.failed \cup
                          (IF conn[list[fo.idx + 1]].open THEN {} ELSE {list[fo.idx + 1]})
                    /\ fo'.calls = fo.calls /\ fo'.k = fo.k /\ fo'.pc = "run"
              /\ (fo.idx >= Len(list) /\ ~fo.mut)
                 => /\ fo.att = Registered(user_id)
                    /\ NoRepeat(fo.att)
                    /\ fo.failed \subseteq {fo.att[i].ws : i \in DOMAIN fo.att}
              /\ fo.idx >= Len(list)
                 => /\ fo'.pc = "run"
                       => /\ fo'.k > fo.k
                          /\ SubSeq(fo'.calls, 1, Len(fo.calls)) = fo.calls
                    /\ fo'.pc = "idle"
                       => /\ \A j \in (fo.k + 1)..Len(fo.calls) :
                                fo.calls[j] \notin DOMAIN active_connections
                          /\ RoomTargets(fo) \cap DOMAIN active_connections = {}]_vars

\* an identity has two sockets; the send on the first failed, the second was
\* attempted all the same and the call has returned
C13_Witness ==
    /\ fo.pc = "idle"
    /\ ~sent.mut
    /\ Len(sent.att) = 2
    /\ sent.failed = {sent.att[1].ws}

\* C15: when a send_to_user call in which sends failed returns, the sockets
\* whose send failed are no longer registered for the identity
C15_FailedSocketReaped ==
    [][(CallReturns /\ fo.failed # {})
       => \A ws \in fo.failed :
             \/ fo.calls[fo.k] \notin DOMAIN active_connections'
             \/ ws \notin Range(active_connections'[fo.calls[fo.k]])]_vars


\* C14: no socket is sent the envelope of a running notify helper twice
C14_EnvelopeOncePerSocket ==
    \A i, j \in DOMAIN fo.env : fo.env[i].ws = fo.env[j].ws => i = j


C17_BadMessageAnswered ==
    [][\A c \in Conns :
          (conn[c].pc = "loop" /\ conn[c].open
              /\ (UnknownMessage(c) \/ MalformedMessage(c)))
          => /\ conn'[c].got = "error"
             /\ conn'[c].pc = "loop"
             /\ conn[c].user \in DOMAIN active_connections'
             /\ c \in Range(active_connections'[conn[c].user])
             /\ \A d \in Conns \ {c} : conn'[d] = conn[d]]_vars


(* ============================ cancellation ============================= *)
\* C19: cancel_booking called by the booking's client, its bound driver or an
\* admin on a booking that is requested, driver_assigned, on the way, arrived
\* or in progress is accepted and writes one of the cancellation states of
\* BookingStatus, and when the handler then responds it has called
\* notify_booking_update with the booking_cancelled type; called by anybody
\* else, or on a completed or cancelled booking, it returns an error and leaves
\* the booking, the event log and the pending work as they were
C19_CancelWhenAllowed ==
    [][\A s \in Slots, u \in Users, b \in DOMAIN bookings :
          LET caller == \/ u = bookings[b].client_id
                        \/ u = bookings[b].driver_id
                        \/ "admin" \in RolesOf(u)
              open == bookings[b].status \in {Chain[i] : i \in 1..5}
          IN  /\ (FreeSlot(s) /\ clock <= MaxOps /\ CancelBooking(s, u, b))
                 => IF caller /\ open
                    THEN /\ req'[s].pc = "commit"
                         /\ req'[s].obj.status \in CancellationStates \cap BookingStatus
                         /\ req'[s].event.event_type = <<"booking", "cancelled">>
                    ELSE /\ resp'.code \in {"forbidden", "bad_request"}
                         /\ UNCHANGED <<bookings, events, profiles, req, notified>>
              /\ (req[s].pc = "commit" /\ req[s].kind = "cancel_booking" /\ DbCommit(s))
                 => bookings'[req[s].booking_id].status \in
                       CancellationStates \cap BookingStatus
              /\ (req[s].pc = "respond" /\ req[s].kind = "cancel_booking" /\ Respond(s))
                 => \E n \in notified' :
                       /\ n.type = "booking_cancelled"
                       /\ n.booking_id = req[s].booking_id]_vars


\* C21: no room entry with an empty member set exists: when the last member
\* of a room is removed, by leave_room or by the disconnect of the member's
\* last connection, the room entry is deleted
C21_NoEmptyRoom ==
    \A room_id \in DOMAIN room_subscriptions : room_subscriptions[room_id] # {}


\* C22: a send_to_user call works on the identity's connections as they were
\* when it started: when it has returned it has attempted no socket registered
\* during the call, and it has attempted every socket of the start that stayed
\* open, whatever other connection of the identity was removed meanwhile
C22_FanOutOverSnapshot ==
    LET attempted == {sent.att[i].ws : i \in DOMAIN sent.att}
    IN  /\ attempted \subseteq Range(sent.snap)
        /\ \A websocket \in Range(sent.snap) :
              conn[websocket].pc # "closed" => websocket \in attempted


\* the awaits of a network operation: accept, send_json of the ack or of a
\* broadcast, receive_json
NetworkAwaits == {"accept", "ack", "cast", "loop"}

\* C23: the registry maps change only in a step of a coroutine that holds the
\* registry lock, at most one coroutine holds the lock at a time, and no
\* coroutine that holds it is at an accept, a send or a receive
C23_RegistryLocked ==
    /\ [](Cardinality({c \in Conns : conn[c].lock}) <= 1)
    /\ [](\A c \in Conns : conn[c].lock => conn[c].pc \notin NetworkAwaits)
    /\ [][registryVars' # registryVars
          => \E c \in Conns : conn[c].lock /\ ~conn'[c].lock]_vars

\* c1's second coroutine waits for the lock that d1's holds for its
\* disconnect, c1's first connection being registered
C23_Witness ==
    \E c, d \in Conns :
       /\ conn[c].lock
       /\ conn[c].todo = <<Call("disconnect", Null)>>
       /\ conn[d].pc = "call" /\ ~conn[d].lock
       /\ conn[d].todo = <<Call("connect", Null)>>
       /\ active_connections # EmptyDict


(* ================== the notification of an accept ====================== *)
\* the step on which the update_booking_status call in slot s, an accept whose
\* commit is done, calls its notify helper
AcceptNotifies(s) ==
    /\ req[s].pc = "respond"
    /\ req[s].kind = "update_booking_status"
    /\ req[s].new_status = "driver_assigned"
    /\ Respond(s)

\* the step on which the notify helper of an accept returns to the handler
AcceptReturns(s) ==
    \/ AcceptNotifies(s) /\ req'[s].pc = "idle"
    \/ /\ req[s].pc = "notify"
       /\ req[s].kind = "update_booking_status"
       /\ req[s].new_status = "driver_assigned"
       /\ FanoutStep /\ fo'.pc = "idle"

\* C24: an accept made with update_booking_status calls its notify helper
\* after its commit: the event row of the transition is stored and the booking
\* has a driver; the helper is called with a booking_status_changed envelope
\* (requested -> driver_assigned) for the booking's client and the driver the
\* booking is bound to, calls send_to_user for the client, then for that
\* driver, then for each member of room booking:<id>, and, when no connection
\* came or went meanwhile, has sent the envelope to every one of them that is
\* online when it returns; whatever sends failed, the handler then answers
\* with success and the booking and its events stay as committed
C24_AcceptNotifiedAfterCommit ==
    [][/\ \A s \in Slots :
             AcceptNotifies(s)
             => LET row == bookings[req[s].booking_id]
                IN  /\ req[s].event \in Range(events)
                    /\ row.status = "driver_assigned"
                    /\ row.driver_id # Null
                    /\ [booking_id |-> req[s].booking_id,
                        type |-> "booking_status_changed",
                        client_id |-> row.client_id, driver_id |-> row.driver_id,
                        status |-> "driver_assigned",
                        previous_status |-> "requested"] \in notified'
                    /\ (fo.pc = "idle" /\ fo'.pc = "run")
                       => /\ fo'.kind = "booking_status_changed"
                          /\ fo'.booking_id = req[s].booking_id
                          /\ Len(fo'.calls) >= 2
                          /\ SubSeq(fo'.calls, 1, 2) = <<row.client_id, row.driver_id>>
       /\ (fo'.pc = "run" /\ fo'.kind = "booking_status_changed"
              /\ fo'.room = Null /\ (fo.pc = "idle" \/ fo.room # Null))
          => Enumerates(SubSeq(fo'.calls, 3, Len(fo'.calls)),
                        broadcast_room(room_subscriptions,
                                       BookingRoom(fo'.booking_id), Null))
       /\ \A s \in Slots :
             AcceptReturns(s)
             => /\ resp' = OkResponse
                /\ accepted' = Append(accepted, <<req[s].booking_id, req[s].user>>)
                /\ UNCHANGED <<bookings, events, profiles>>
                /\ (req[s].pc = "notify" /\ ~fo.dirty)
                   => Receivers(fo.env) =
                         (Range(fo.calls) \cup RoomTargets(fo))
                         \cap DOMAIN active_connections]_vars

\* d1 accepted while a1 was in room booking:1 on a socket whose peer had gone
\* and c1 was connected: the last send_to_user call was the room's, for a1, its
\* send failed, the accept returned success and the booking is d1's
C24_Witness ==
    /\ accepted = <<<<1, "d1">>>>
    /\ resp = OkResponse
    /\ bookings[1].driver_id = "d1"
    /\ bookings[1].status = "driver_assigned"
    /\ "c1" \in DOMAIN active_connections
    /\ room_subscriptions = [r \in {"booking:1"} |-> {"a1"}]
    /\ sent.user = "a1"
    /\ sent.failed # {}
    /\ \E n \in notified : n.type = "booking_status_changed" /\ n.driver_id = "d1"


(* ============================ roles ==================================== *)
\* C25: a connection leaves the handshake for its receive loop, where alone
\* its messages are processed, only with its identity added to the
\* notification channel, to driver_location if the connection's role is driver
\* and to admin if it is admin, and to no other channel (client and support:
\* notification only)
C25_AutoSubscribed ==
    [][\A c \in Conns :
          (conn[c].pc \in {"new", "ack"} /\ conn'[c].pc \notin {"new", "ack", "closed"})
          => /\ conn[c].pc = "ack"
             /\ conn'[c].pc = "loop"
             /\ \A ch \in ChannelType :
                   channel_subscriptions'[ch] =
                      channel_subscriptions[ch] \cup
                      (IF \/ ch = "notification"
                          \/ ch = "driver_location" /\ conn[c].role = "driver"
                          \/ ch = "admin" /\ conn[c].role = "admin"
                       THEN {conn[c].user} ELSE {})
             /\ conn[c].user \in channel_subscriptions'["notification"]]_vars

\* admin a1, driver d1 and support agent s1 are in their loops: a1 alone is in
\* admin, d1 alone in driver_location, all three in notification
C25_Witness ==
    /\ \A c \in Conns : conn[c].pc = "loop"
    /\ channel_subscriptions["notification"] = {"a1", "d1", "s1"}
    /\ channel_subscriptions["admin"] = {"a1"}
    /\ channel_subscriptions["driver_location"] = {"d1"}
    /\ \E c \in Conns : conn[c].user = "s1" /\ conn[c].role = "support"

\* the identities that have a registered connection established with a role
LiveWithRole(role) ==
    {conn[c].user : c \in {d \in Conns : /\ conn[d].pc \in {"ack", "loop", "cast"}
                                          /\ conn[d].role = role}}

\* C27: broadcast_by_role(role) calls send_to_user for exactly the identities
\* that have a registered connection established with that role, and
\* get_online_drivers is the set of identities with a registered connection of
\* role driver, also when an identity's connections have different roles
C27_RoleOfEachConnection ==
    /\ [](get_online_drivers = LiveWithRole("driver"))
    /\ [][NotifyNewSupportTicket
          => \/ fo'.pc = "run" /\ Enumerates(fo'.calls, LiveWithRole("admin"))
             \/ fo'.pc = "idle" /\ LiveWithRole("admin") = {}]_vars


(* ===================== the end of a connection ========================= *)
\* the socket is in some identity's list of active_connections
InRegistry(c) ==
    \E user_id \in DOMAIN active_connections : c \in Range(active_connections[user_id])

\* C26: with the handlers scheduled fairly, a registered connection whose
\* transport has closed is eventually out of the registry; and a disconnect of
\* a connection that is not its identity's last takes that socket out of the
\* identity's list and decrements its connection_count, and leaves the
\* identity's other sockets, its metadata role, the channel sets, the rooms,
\* the other identities and the other connections as they were
C26_ClosedConnectionRemoved ==
    /\ \A c \in Conns : (InRegistry(c) /\ ~conn[c].open) ~> ~InRegistry(c)
    /\ [][\A c \in Conns :
             (/\ Disconnect(c)
              /\ InRegistry(c)
              /\ Len(active_connections[conn[c].user]) > 1)
             => LET user_id == conn[c].user
                IN  /\ active_connections' =
                          [active_connections EXCEPT
                              ![user_id] = SelectSeq(@, LAMBDA d : d # c)]
                    /\ user_metadata' =
                          [user_metadata EXCEPT ![user_id].connection_count = @ - 1]
                    /\ channel_subscriptions' = channel_subscriptions
                    /\ room_subscriptions' = room_subscriptions
                    /\ \A d \in Conns \ {c} : conn'[d] = conn[d]]_vars

\* c1's first socket is gone from the registry, its second, whose peer has
\* gone too, is still there with c1's room membership and channel subscription
C26_Witness ==
    /\ conn[1].pc = "closed"
    /\ active_connections = [u \in {"c1"} |-> <<2>>]
    /\ user_metadata["c1"].connection_count = 1
    /\ room_subscriptions = [r \in {"booking:1"} |-> {"c1"}]
    /\ "c1" \in channel_subscriptions["notification"]
    /\ ~conn[2].open


(* ====================== the registry's maps agree ====================== *)
\* C28: active_connections and user_metadata have the same keys, no
\* identity's connection list is empty, each connection_count is the length of
\* the identity's list, and is_user_online is true of exactly the identities
\* that have a registered connection
C28_RegistryMapsAgree ==
    /\ DOMAIN active_connections = DOMAIN user_metadata
    /\ \A user_id \in DOMAIN active_connections :
          /\ active_connections[user_id] # <<>>
          /\ user_metadata[user_id].connection_count = Len(active_connections[user_id])
    /\ \A u \in Users :
          is_user_online(u)
          <=> \E c \in Conns : conn[c].pc \in {"ack", "loop", "cast"} /\ conn[c].user = u

\* the first connection has ended; c1 holds the other two
C28_Witness ==
    /\ conn[1].pc = "closed"
    /\ conn[1].code = 0
    /\ active_connections = [u \in {"c1"} |-> <<2, 3>>]
    /\ user_metadata["c1"].connection_count = 2


(* ================= the driver who accepts a booking ==================== *)
\* the step on which the commit of a successful accept in slot s is done
AcceptCommits(s) ==
    /\ req[s].pc = "commit"
    /\ IsAccept(req[s])
    /\ DbCommit(s)

\* C29: when the accept of a driver is committed, through update_booking_status
\* or accept_job, the booking is the driver's and the driver's availability is
\* not "available", so that create_booking's query of the approved and
\* available profiles does not return the driver
C29_AcceptMakesDriverBusy ==
    [][\A s \in Slots :
          (AcceptCommits(s) /\ IsDriver(req[s].user))
          => /\ bookings'[req[s].booking_id].driver_id = req[s].user
             /\ profiles'[req[s].user].availability_status # "available"]_vars


\* C30: an accept of a driver-role user passes its handler's checks, on either
\* accept path, only if the user's driver profile is approved at that time;
\* otherwise it is refused and the booking stays as it was; so the commit that
\* sets a booking's driver_id to a driver is that of a driver with an approved
\* profile
C30_OnlyApprovedDriverBound ==
    [][/\ \A s \in Slots :
             (/\ req[s].pc = "idle"
              /\ req'[s].pc = "commit"
              /\ IsAccept(req'[s])
              /\ IsDriver(req'[s].user))
             => profiles[req'[s].user].status = "approved"
       /\ \A s \in Slots :
             (AcceptCommits(s) /\ IsDriver(req[s].user))
             => profiles[req[s].user].status = "approved"]_vars

=============================================================================
